---- MODULE Spec2Model ----
(***************************************************************************)
(* Model of node-metrics/src/service/data_state/mod.rs: the DataState      *)
(* store (two bounded histories, the stake table, the node-identity        *)
(* registry) and the leaf pipeline (process_leaf_stream /                  *)
(* process_incoming_leaf) that mutates it under the write lock and then    *)
(* sends the block detail and the voters bit vector on two channels.       *)
(***************************************************************************)
EXTENDS Integers, Sequences, FiniteSets, TLC

VARIABLES
    \* DataState
    latest_blocks, latest_voters, stake_table, node_identity,
    \* Arc<RwLock<DataState>>
    write_locked, readers,
    \* process_leaf_stream / process_incoming_leaf: position and locals
    pc, exit, leaf, block_detail, block_detail_copy,
    stake_table_voters_bit_vec, voters_bitvec,
    \* the inbound leaf stream
    leaf_stream, leaf_closed, produced,
    \* the two outbound channels
    block_chan, block_rx_open, block_parked, block_rx_popped,
    voters_chan, voters_rx_open, voters_parked, voters_rx_popped,
    \* history variables (what was taken, pushed and sent, in order)
    received, all_blocks, all_voters, sent_blocks, sent_voters,
    send_attempts, failed_sends

store_vars == <<latest_blocks, latest_voters, stake_table, node_identity>>
lock_vars == <<write_locked, readers>>
local_vars == <<leaf, block_detail, block_detail_copy,
                stake_table_voters_bit_vec, voters_bitvec>>
stream_vars == <<leaf_stream, leaf_closed, produced>>
block_chan_vars == <<block_chan, block_rx_open, block_parked, block_rx_popped>>
voters_chan_vars == <<voters_chan, voters_rx_open, voters_parked,
                      voters_rx_popped>>
hist_vars == <<received, all_blocks, all_voters, sent_blocks, sent_voters,
               send_attempts, failed_sends>>
vars == <<store_vars, lock_vars, pc, exit, local_vars, stream_vars,
          block_chan_vars, voters_chan_vars, hist_vars>>

----------------------------------------------------------------------------
\* Program constant.
MAX_HISTORY == 50

\* Bounds of the model.
MaxLeaves == 2          \* leaves produced under Spec, FairSpec, SpecAdmin
MaxRegistry == 2        \* longest registry under Spec, SpecAdmin, SpecStore
MaxLongLeaves == 52     \* leaves produced under SpecLong
MaxAppends == 52        \* direct appends to each history under SpecStore
MaxBits == 3            \* longest raw bit vector under SpecRemap
MaxIdentities == 3      \* longest registry under SpecRemap
MaxInbound == 2         \* leaves waiting in the inbound stream (the test's
                        \* channel(1) with its one sender holds two)
ChannelBuffer == 1      \* mpsc::channel(buffer) of each outbound channel
MaxReaders == 1         \* concurrent holders of the read lock

Keys == {"A", "B", "C"}
SpecKeys == {"A"}
LongKeys == {"A", "B"}

Min(a, b) == IF a <= b THEN a ELSE b

\* All sequences over S of length 0..n.
SeqsUpTo(S, n) == UNION {[1..k -> S] : k \in 0..n}

\* Sequences without repetition.
Distinct(s) == \A i, j \in 1..Len(s) : i # j => s[i] # s[j]

----------------------------------------------------------------------------
(* Values *)

\* Option<(signature, BitVec)> of a quorum certificate.
NoSignatures == [some |-> FALSE, bits |-> <<>>]
Signatures(bits) == [some |-> TRUE, bits |-> bits]

Leaf(h, sigs) == [height |-> h, signatures |-> sigs]
NoLeaf == Leaf(0, NoSignatures)

\* A stake table entry is (key, stake amount, state key).
StakeEntry(k) == <<k, 1, k>>
\* A stake table holding `keys` in order; `ok` tells whether
\* try_iter(LastEpochStart) can enumerate them.
StakeTable(keys, ok) ==
    [ok |-> ok, entries |-> [i \in 1..Len(keys) |-> StakeEntry(keys[i])]]
\* StakeTable::default()
EmptyStakeTable == StakeTable(<<>>, TRUE)

\* Every stake table over the keys K (a key is registered at most once).
StakeTablesOver(K) ==
    {StakeTable(ks, ok) :
        ks \in {s \in SeqsUpTo(K, Cardinality(K)) : Distinct(s)}, ok \in BOOLEAN}

NodeIdentity(k) == [public_key |-> k]

\* The signatures of the leaves of Spec: none, and one raw bit, clear or set.
SpecSignatures == {NoSignatures, Signatures(<<FALSE>>), Signatures(<<TRUE>>)}

SignaturesUpTo(n) == {NoSignatures} \cup {Signatures(b) : b \in SeqsUpTo(BOOLEAN, n)}

----------------------------------------------------------------------------
(* Pure functions *)

\* CircularBuffer<MAX_HISTORY, T>::push_back: append; a full buffer drops its
\* front element first.
PushBackEvictNewest(buf, x) ==
    IF Len(buf) < MAX_HISTORY THEN Append(buf, x)
    ELSE Append(SubSeq(buf, 1, Len(buf) - 1), x)
PushBack(buf, x) ==
    IF Len(buf) < MAX_HISTORY THEN Append(buf, x)
    ELSE Append(SubSeq(buf, 2, Len(buf)), x)

\* create_block_detail_from_leaf: every field is a function of the leaf's
\* header and payload, which the leaf's height stands for.
CreateBlockDetailFromLeaf(l) == [height |-> l.height]

\* signatures.map_or(Default::default(), |sig| sig.1.clone())
StakeTableVotersBitVec(l) ==
    IF l.signatures.some THEN l.signatures.bits ELSE <<>>

\* stake_table.try_iter(LastEpochStart).map_or(vec![], collect)
StableTableEntriesVecUnchecked(st) == st.entries
StableTableEntriesVec(st) == IF st.ok THEN st.entries ELSE <<>>

\* zip(bits, entries): pairs up to the end of the shorter sequence.
ZipAllEntries(bits, entries) ==
    [i \in 1..Len(entries) |->
        <<IF i <= Len(bits) THEN bits[i] ELSE TRUE, entries[i]>>]
Zip(bits, entries) ==
    [i \in 1..Min(Len(bits), Len(entries)) |-> <<bits[i], entries[i]>>]

\* .filter(|(bit, _)| *bit).map(|(_, entry)| key).collect::<HashSet<_>>()
VotersSet(bits, entries) ==
    LET pairs == Zip(bits, entries)
    IN  {pairs[i][2][1] : i \in {j \in 1..Len(pairs) : pairs[j][1]}}

\* node_identity.iter().fold(BitVec, |acc, key| acc.push(voters_set.contains(&key.0)))
FoldVotersBitvec(voters_set, registry) ==
    [i \in 1..Len(registry) |-> registry[i][1] \in voters_set]

\* The whole remap of lines 194-222.
RemapVotersRaw(bits, st, registry) == bits
RemapVotersByIndex(bits, st, registry) ==
    [i \in 1..Len(registry) |-> i <= Len(bits) /\ bits[i]]
RemapVoters(bits, st, registry) ==
    FoldVotersBitvec(VotersSet(bits, StableTableEntriesVec(st)), registry)

----------------------------------------------------------------------------
(* DataState's mutators.  A caller reaches them through the write half of   *)
(* the RwLock, so each call is one step taken while nobody holds the lock.  *)

LockFree == ~write_locked /\ readers = 0

\* DataState::replace_stake_table
replace_stake_table_clearing(st) ==
    /\ LockFree
    /\ stake_table' = st
    /\ latest_voters' = <<>>
    /\ UNCHANGED <<latest_blocks, node_identity>>
    /\ UNCHANGED <<lock_vars, pc, exit, local_vars, stream_vars,
                   block_chan_vars, voters_chan_vars, hist_vars>>
replace_stake_table(st) ==
    /\ LockFree
    /\ stake_table' = st
    /\ UNCHANGED <<latest_blocks, latest_voters, node_identity>>
    /\ UNCHANGED <<lock_vars, pc, exit, local_vars, stream_vars,
                   block_chan_vars, voters_chan_vars, hist_vars>>

\* DataState::add_node_identity
add_node_identity_twice(identity) ==
    /\ LockFree
    /\ node_identity' = Append(Append(node_identity, <<identity.public_key, identity>>),
                               <<identity.public_key, identity>>)
    /\ UNCHANGED <<latest_blocks, latest_voters, stake_table>>
    /\ UNCHANGED <<lock_vars, pc, exit, local_vars, stream_vars,
                   block_chan_vars, voters_chan_vars, hist_vars>>
add_node_identity_front(identity) ==
    /\ LockFree
    /\ node_identity' = <<(<<identity.public_key, identity>>)>> \o node_identity
    /\ UNCHANGED <<latest_blocks, latest_voters, stake_table>>
    /\ UNCHANGED <<lock_vars, pc, exit, local_vars, stream_vars,
                   block_chan_vars, voters_chan_vars, hist_vars>>
add_node_identity(identity) ==
    /\ LockFree
    /\ node_identity' = Append(node_identity, <<identity.public_key, identity>>)
    /\ UNCHANGED <<latest_blocks, latest_voters, stake_table>>
    /\ UNCHANGED <<lock_vars, pc, exit, local_vars, stream_vars,
                   block_chan_vars, voters_chan_vars, hist_vars>>

\* DataState::add_latest_block
add_latest_block(block) ==
    /\ LockFree
    /\ latest_blocks' = PushBack(latest_blocks, block)
    /\ all_blocks' = Append(all_blocks, block)
    /\ UNCHANGED <<latest_voters, stake_table, node_identity>>
    /\ UNCHANGED <<lock_vars, pc, exit, local_vars, stream_vars,
                   block_chan_vars, voters_chan_vars>>
    /\ UNCHANGED <<received, all_voters, sent_blocks, sent_voters,
                   send_attempts, failed_sends>>

\* DataState::add_latest_voters
add_latest_voters(voters) ==
    /\ LockFree
    /\ latest_voters' = PushBack(latest_voters, voters)
    /\ all_voters' = Append(all_voters, voters)
    /\ UNCHANGED <<latest_blocks, stake_table, node_identity>>
    /\ UNCHANGED <<lock_vars, pc, exit, local_vars, stream_vars,
                   block_chan_vars, voters_chan_vars>>
    /\ UNCHANGED <<received, all_blocks, sent_blocks, sent_voters,
                   send_attempts, failed_sends>>

\* data_state.read().await, and the read guard's drop.
ReaderAcquire ==
    /\ ~write_locked
    /\ readers < MaxReaders
    /\ readers' = readers + 1
    /\ UNCHANGED <<store_vars, write_locked, pc, exit, local_vars, stream_vars,
                   block_chan_vars, voters_chan_vars, hist_vars>>

ReaderRelease ==
    /\ readers > 0
    /\ readers' = readers - 1
    /\ UNCHANGED <<store_vars, write_locked, pc, exit, local_vars, stream_vars,
                   block_chan_vars, voters_chan_vars, hist_vars>>

----------------------------------------------------------------------------
(* The inbound stream and the receiving ends of the two channels.           *)

\* leaf_sender.send(leaf): the n-th leaf sent carries height n.  The stream
\* is owned by process_leaf_stream: once that has finished the receiving end
\* is gone and the send fails, queueing nothing.
ProduceLeaf(sigs, limit) ==
    /\ ~leaf_closed
    /\ pc # "done"
    /\ produced < limit
    /\ Len(leaf_stream) < MaxInbound
    /\ leaf_stream' = Append(leaf_stream, Leaf(produced + 1, sigs))
    /\ produced' = produced + 1
    /\ UNCHANGED <<store_vars, lock_vars, pc, exit, local_vars, leaf_closed,
                   block_chan_vars, voters_chan_vars, hist_vars>>

\* drop(leaf_sender)
CloseLeafSource ==
    /\ ~leaf_closed
    /\ leaf_closed' = TRUE
    /\ UNCHANGED <<store_vars, lock_vars, pc, exit, local_vars, leaf_stream,
                   produced, block_chan_vars, voters_chan_vars, hist_vars>>

\* The channel's count of messages, on which a sender decides to park: the
\* receiver lowers it only after it has taken a message and woken a sender.
BlockNumMessages == Len(block_chan) + (IF block_rx_popped THEN 1 ELSE 0)
VotersNumMessages == Len(voters_chan) + (IF voters_rx_popped THEN 1 ELSE 0)

\* block_receiver.next(), first part: takes the oldest message and wakes a
\* parked sender; the count of messages is not yet lowered.
RecvBlock ==
    /\ block_rx_open
    /\ ~block_rx_popped
    /\ block_chan # <<>>
    /\ block_chan' = Tail(block_chan)
    /\ block_parked' = FALSE
    /\ block_rx_popped' = TRUE
    /\ UNCHANGED <<store_vars, lock_vars, pc, exit, local_vars, stream_vars,
                   block_rx_open, voters_chan_vars, hist_vars>>

\* block_receiver.next(), second part: lowers the count of messages.  A send
\* made between the two parts has counted the message taken, and a sender
\* parked by it has missed the wake-up.
RecvBlockDone ==
    /\ block_rx_popped
    /\ block_rx_popped' = FALSE
    /\ UNCHANGED <<store_vars, lock_vars, pc, exit, local_vars, stream_vars,
                   block_chan, block_rx_open, block_parked, voters_chan_vars,
                   hist_vars>>

\* drop(block_receiver): closes the channel, wakes the parked sender and
\* drops the messages still queued.
CloseBlockRx ==
    /\ block_rx_open
    /\ ~block_rx_popped
    /\ block_rx_open' = FALSE
    /\ block_chan' = <<>>
    /\ block_parked' = FALSE
    /\ UNCHANGED <<store_vars, lock_vars, pc, exit, local_vars, stream_vars,
                   block_rx_popped, voters_chan_vars, hist_vars>>

\* voters_receiver.next(), first part
RecvVoters ==
    /\ voters_rx_open
    /\ ~voters_rx_popped
    /\ voters_chan # <<>>
    /\ voters_chan' = Tail(voters_chan)
    /\ voters_parked' = FALSE
    /\ voters_rx_popped' = TRUE
    /\ UNCHANGED <<store_vars, lock_vars, pc, exit, local_vars, stream_vars,
                   block_chan_vars, voters_rx_open, hist_vars>>

\* voters_receiver.next(), second part
RecvVotersDone ==
    /\ voters_rx_popped
    /\ voters_rx_popped' = FALSE
    /\ UNCHANGED <<store_vars, lock_vars, pc, exit, local_vars, stream_vars,
                   block_chan_vars, voters_chan, voters_rx_open, voters_parked,
                   hist_vars>>

\* drop(voters_receiver)
CloseVotersRx ==
    /\ voters_rx_open
    /\ ~voters_rx_popped
    /\ voters_rx_open' = FALSE
    /\ voters_chan' = <<>>
    /\ voters_parked' = FALSE
    /\ UNCHANGED <<store_vars, lock_vars, pc, exit, local_vars, stream_vars,
                   block_chan_vars, voters_rx_popped, hist_vars>>

----------------------------------------------------------------------------
(* process_leaf_stream and process_incoming_leaf, one step per await point  *)
(* and per store access inside the write guard.                             *)

\* stream.next().await: Some(leaf) starts process_incoming_leaf with fresh
\* clones of both senders (lines 161-179); None returns.
NextLeafNoReturn ==
    /\ pc = "next"
    /\ leaf_stream # <<>>
    /\ leaf' = Head(leaf_stream)
    /\ leaf_stream' = Tail(leaf_stream)
    /\ received' = Append(received, Head(leaf_stream))
    /\ block_detail' = CreateBlockDetailFromLeaf(Head(leaf_stream))
    /\ block_detail_copy' = CreateBlockDetailFromLeaf(Head(leaf_stream))
    /\ stake_table_voters_bit_vec' = StakeTableVotersBitVec(Head(leaf_stream))
    /\ block_parked' = FALSE
    /\ voters_parked' = FALSE
    /\ pc' = "write"
    /\ UNCHANGED <<store_vars, lock_vars, exit, voters_bitvec, leaf_closed,
                   produced, block_chan, block_rx_open, block_rx_popped,
                   voters_chan, voters_rx_open, voters_rx_popped,
                   all_blocks, all_voters, sent_blocks,
                   sent_voters, send_attempts, failed_sends>>
NextLeaf ==
    /\ pc = "next"
    /\ IF leaf_stream # <<>>
       THEN /\ leaf' = Head(leaf_stream)
            /\ leaf_stream' = Tail(leaf_stream)
            /\ received' = Append(received, Head(leaf_stream))
            /\ block_detail' = CreateBlockDetailFromLeaf(Head(leaf_stream))
            /\ block_detail_copy' = CreateBlockDetailFromLeaf(Head(leaf_stream))
            /\ stake_table_voters_bit_vec' = StakeTableVotersBitVec(Head(leaf_stream))
            /\ block_parked' = FALSE
            /\ voters_parked' = FALSE
            /\ pc' = "write"
            /\ UNCHANGED exit
       ELSE /\ leaf_closed
            /\ exit' = "return"
            /\ pc' = "done"
            /\ UNCHANGED <<leaf, leaf_stream, received, block_detail,
                           block_detail_copy, stake_table_voters_bit_vec,
                           block_parked, voters_parked>>
    /\ UNCHANGED <<store_vars, lock_vars, voters_bitvec, leaf_closed, produced,
                   block_chan, block_rx_open, block_rx_popped, voters_chan,
                   voters_rx_open, voters_rx_popped,
                   all_blocks, all_voters, sent_blocks, sent_voters,
                   send_attempts, failed_sends>>

\* data_state.write().await
AcquireWriteNoExclusion ==
    /\ pc = "write"
    /\ pc' = "remap"
    /\ UNCHANGED <<store_vars, lock_vars, exit, local_vars, stream_vars,
                   block_chan_vars, voters_chan_vars, hist_vars>>
AcquireWrite ==
    /\ pc = "write"
    /\ LockFree
    /\ write_locked' = TRUE
    /\ pc' = "remap"
    /\ UNCHANGED <<store_vars, readers, exit, local_vars, stream_vars,
                   block_chan_vars, voters_chan_vars, hist_vars>>

\* Lines 194-222: the remap against the store's stake table and registry.
ComputeVotersBitvecRegistering ==
    /\ pc = "remap"
    /\ LET voters == VotersSet(stake_table_voters_bit_vec,
                               StableTableEntriesVec(stake_table))
           known == {node_identity[i][1] : i \in 1..Len(node_identity)}
           k == CHOOSE v \in voters \ known : TRUE
       IN  node_identity' =
               IF voters \subseteq known THEN node_identity
               ELSE Append(node_identity, <<k, NodeIdentity(k)>>)
    /\ voters_bitvec' =
           RemapVoters(stake_table_voters_bit_vec, stake_table, node_identity')
    /\ pc' = "push_blocks"
    /\ UNCHANGED <<latest_blocks, latest_voters, stake_table, lock_vars, exit,
                   leaf, block_detail, block_detail_copy,
                   stake_table_voters_bit_vec, stream_vars,
                   block_chan_vars, voters_chan_vars, hist_vars>>
ComputeVotersBitvec ==
    /\ pc = "remap"
    /\ voters_bitvec' =
           RemapVoters(stake_table_voters_bit_vec, stake_table, node_identity)
    /\ pc' = "push_blocks"
    /\ UNCHANGED <<store_vars, lock_vars, exit, leaf, block_detail,
                   block_detail_copy, stake_table_voters_bit_vec, stream_vars,
                   block_chan_vars, voters_chan_vars, hist_vars>>

\* latest_blocks.push_back(block_detail)
PushLatestBlocks ==
    /\ pc = "push_blocks"
    /\ latest_blocks' = PushBack(latest_blocks, block_detail)
    /\ all_blocks' = Append(all_blocks, block_detail)
    /\ pc' = "push_voters"
    /\ UNCHANGED <<latest_voters, stake_table, node_identity, lock_vars, exit,
                   local_vars, stream_vars, block_chan_vars, voters_chan_vars,
                   received, all_voters, sent_blocks, sent_voters,
                   send_attempts, failed_sends>>

\* latest_voters.push_back(voters_bitvec.clone())
PushLatestVotersSkipEmpty ==
    /\ pc = "push_voters"
    /\ IF \E i \in 1..Len(voters_bitvec) : voters_bitvec[i]
       THEN /\ latest_voters' = PushBack(latest_voters, voters_bitvec)
            /\ all_voters' = Append(all_voters, voters_bitvec)
       ELSE UNCHANGED <<latest_voters, all_voters>>
    /\ pc' = "drop"
    /\ UNCHANGED <<latest_blocks, stake_table, node_identity, lock_vars, exit,
                   local_vars, stream_vars, block_chan_vars, voters_chan_vars,
                   received, all_blocks, sent_blocks, sent_voters,
                   send_attempts, failed_sends>>
PushLatestVoters ==
    /\ pc = "push_voters"
    /\ latest_voters' = PushBack(latest_voters, voters_bitvec)
    /\ all_voters' = Append(all_voters, voters_bitvec)
    /\ pc' = "drop"
    /\ UNCHANGED <<latest_blocks, stake_table, node_identity, lock_vars, exit,
                   local_vars, stream_vars, block_chan_vars, voters_chan_vars,
                   received, all_blocks, sent_blocks, sent_voters,
                   send_attempts, failed_sends>>

\* drop(data_state_write_lock_guard)
DropGuardKept ==
    /\ pc = "drop"
    /\ pc' = "send_block"
    /\ UNCHANGED <<store_vars, lock_vars, exit, local_vars, stream_vars,
                   block_chan_vars, voters_chan_vars, hist_vars>>
DropGuard ==
    /\ pc = "drop"
    /\ write_locked' = FALSE
    /\ pc' = "send_block"
    /\ UNCHANGED <<store_vars, readers, exit, local_vars, stream_vars,
                   block_chan_vars, voters_chan_vars, hist_vars>>

\* block_sender.send(block_detail_copy): a closed receiver fails the send,
\* and the Err ends process_leaf_stream (break at line 278), which drops the
\* stream with the leaves still waiting in it; otherwise the message is
\* queued, and the sender parks when the channel now counts more messages
\* than its buffer.
SendBlockErrorIgnored ==
    /\ pc = "send_block"
    /\ send_attempts' = send_attempts + 1
    /\ IF ~block_rx_open
       THEN /\ failed_sends' = failed_sends + 1
            /\ pc' = "send_voters"
            /\ UNCHANGED <<block_chan, block_parked, sent_blocks, exit,
                           leaf_stream>>
       ELSE /\ block_chan' = Append(block_chan, block_detail_copy)
            /\ sent_blocks' = Append(sent_blocks, block_detail_copy)
            /\ block_parked' = (BlockNumMessages + 1 > ChannelBuffer)
            /\ pc' = "flush_block"
            /\ UNCHANGED <<failed_sends, exit, leaf_stream>>
    /\ UNCHANGED <<store_vars, lock_vars, local_vars, leaf_closed, produced,
                   block_rx_open, block_rx_popped, voters_chan_vars, received,
                   all_blocks, all_voters, sent_voters>>
SendBlock ==
    /\ pc = "send_block"
    /\ send_attempts' = send_attempts + 1
    /\ IF ~block_rx_open
       THEN /\ failed_sends' = failed_sends + 1
            /\ exit' = "break"
            /\ pc' = "done"
            /\ leaf_stream' = <<>>
            /\ UNCHANGED <<block_chan, block_parked, sent_blocks>>
       ELSE /\ block_chan' = Append(block_chan, block_detail_copy)
            /\ sent_blocks' = Append(sent_blocks, block_detail_copy)
            /\ block_parked' = (BlockNumMessages + 1 > ChannelBuffer)
            /\ pc' = "flush_block"
            /\ UNCHANGED <<failed_sends, exit, leaf_stream>>
    /\ UNCHANGED <<store_vars, lock_vars, local_vars, leaf_closed, produced,
                   block_rx_open, block_rx_popped, voters_chan_vars, received,
                   all_blocks, all_voters, sent_voters>>

\* The rest of block_sender.send(..).await: wait until unparked.
FlushBlockNoWait ==
    /\ pc = "flush_block"
    /\ pc' = "send_voters"
    /\ UNCHANGED <<store_vars, lock_vars, exit, local_vars, stream_vars,
                   block_chan_vars, voters_chan_vars, hist_vars>>
FlushBlock ==
    /\ pc = "flush_block"
    /\ ~block_parked
    /\ pc' = "send_voters"
    /\ UNCHANGED <<store_vars, lock_vars, exit, local_vars, stream_vars,
                   block_chan_vars, voters_chan_vars, hist_vars>>

\* voters_sender.send(voters_bitvec), in the same way.
SendVoters ==
    /\ pc = "send_voters"
    /\ send_attempts' = send_attempts + 1
    /\ IF ~voters_rx_open
       THEN /\ failed_sends' = failed_sends + 1
            /\ exit' = "break"
            /\ pc' = "done"
            /\ leaf_stream' = <<>>
            /\ UNCHANGED <<voters_chan, voters_parked, sent_voters>>
       ELSE /\ voters_chan' = Append(voters_chan, voters_bitvec)
            /\ sent_voters' = Append(sent_voters, voters_bitvec)
            /\ voters_parked' = (VotersNumMessages + 1 > ChannelBuffer)
            /\ pc' = "flush_voters"
            /\ UNCHANGED <<failed_sends, exit, leaf_stream>>
    /\ UNCHANGED <<store_vars, lock_vars, local_vars, leaf_closed, produced,
                   voters_rx_open, voters_rx_popped, block_chan_vars, received,
                   all_blocks, all_voters, sent_blocks>>

\* The rest of voters_sender.send(..).await; Ok(()) goes round the loop.
FlushVotersSameLeaf ==
    /\ pc = "flush_voters"
    /\ ~voters_parked
    /\ pc' = "write"
    /\ UNCHANGED <<store_vars, lock_vars, exit, local_vars, stream_vars,
                   block_chan_vars, voters_chan_vars, hist_vars>>
FlushVoters ==
    /\ pc = "flush_voters"
    /\ ~voters_parked
    /\ pc' = "next"
    /\ UNCHANGED <<store_vars, lock_vars, exit, local_vars, stream_vars,
                   block_chan_vars, voters_chan_vars, hist_vars>>

\* What process_leaf_stream gives its caller.  The function has no return
\* type: leaving the loop by `return` at the end of the stream (line 265) and
\* by `break` after a failed send (line 278) both yield the unit value.
ProcessLeafStreamOutput(e) == IF e = "running" THEN "pending" ELSE "unit"

Pipeline ==
    \/ NextLeaf
    \/ AcquireWrite
    \/ ComputeVotersBitvec
    \/ PushLatestBlocks
    \/ PushLatestVoters
    \/ DropGuard
    \/ SendBlock
    \/ FlushBlock
    \/ SendVoters
    \/ FlushVoters

Receivers ==
    \/ RecvBlock
    \/ RecvBlockDone
    \/ CloseBlockRx
    \/ RecvVoters
    \/ RecvVotersDone
    \/ CloseVotersRx

Readers ==
    \/ ReaderAcquire
    \/ ReaderRelease

----------------------------------------------------------------------------
(* Specifications *)

\* DataState::default() behind a fresh lock, the pipeline spawned, all three
\* channels open and empty (test_process_leaf_stream, lines 316-327).
InitWith(st, registry, stream) ==
    /\ latest_blocks = <<>>
    /\ latest_voters = <<>>
    /\ stake_table = st
    /\ node_identity = registry
    /\ write_locked = FALSE
    /\ readers = 0
    /\ pc = "next"
    /\ exit = "running"
    /\ leaf = NoLeaf
    /\ block_detail = CreateBlockDetailFromLeaf(NoLeaf)
    /\ block_detail_copy = CreateBlockDetailFromLeaf(NoLeaf)
    /\ stake_table_voters_bit_vec = <<>>
    /\ voters_bitvec = <<>>
    /\ leaf_stream = stream
    /\ leaf_closed = FALSE
    /\ produced = Len(stream)
    /\ block_chan = <<>>
    /\ block_rx_open = TRUE
    /\ block_parked = FALSE
    /\ block_rx_popped = FALSE
    /\ voters_chan = <<>>
    /\ voters_rx_open = TRUE
    /\ voters_parked = FALSE
    /\ voters_rx_popped = FALSE
    /\ received = <<>>
    /\ all_blocks = <<>>
    /\ all_voters = <<>>
    /\ sent_blocks = <<>>
    /\ sent_voters = <<>>
    /\ send_attempts = 0
    /\ failed_sends = 0

\* test_process_leaf_stream's start: DataState::default().
InitDefault == InitWith(EmptyStakeTable, <<>>, <<>>)

\* DataState::new(..) with empty histories, any stake table and any registry.
Registries(K, n) ==
    {[i \in 1..Len(ks) |-> <<ks[i], NodeIdentity(ks[i])>>] : ks \in SeqsUpTo(K, n)}

Init ==
    \E st \in StakeTablesOver(SpecKeys) :
        \E registry \in Registries(SpecKeys, MaxRegistry) :
            InitWith(st, registry, <<>>)

\* The pipeline with the parties it waits for: leaves with any signatures,
\* receivers that take or drop, and readers of the store.
Next ==
    \/ Pipeline
    \/ \E sigs \in SpecSignatures : ProduceLeaf(sigs, MaxLeaves)
    \/ CloseLeafSource
    \/ Receivers
    \/ Readers

Spec == Init /\ [][Next]_vars

\* Liveness: the executor keeps polling the pipeline's task, so a pipeline
\* step that stays possible is eventually taken; the lock is fair to a
\* waiting writer: a read guard is dropped at the end of its scope, and the
\* readers do not hold the lock between them for ever.
\* Nothing makes a receiver take its messages, but a next() that has taken
\* one runs to its end.  The store starts as DataState::default().
FairSpec ==
    /\ InitDefault
    /\ [][Next]_vars
    /\ WF_vars(Pipeline)
    /\ SF_vars(AcquireWrite)
    /\ WF_vars(ReaderRelease)
    /\ SF_vars(ReaderRelease /\ readers' = 0)
    /\ WF_vars(RecvBlockDone)
    /\ WF_vars(RecvVotersDone)

\* The pipeline between the two external mutators of the stake table and
\* the registry, from the default store: leaves with any signatures, and
\* callers of replace_stake_table and add_node_identity, each call made
\* under the write lock.  The consumers do not receive here: the store is
\* what is looked at, and MaxLeaves leaves reach it before a send parks.
NextAdmin ==
    \/ Pipeline
    \/ \E sigs \in SpecSignatures : ProduceLeaf(sigs, MaxLeaves)
    \/ CloseLeafSource
    \/ \E st \in StakeTablesOver(SpecKeys) : replace_stake_table(st)
    \/ \E k \in SpecKeys :
          Len(node_identity) < MaxRegistry /\ add_node_identity(NodeIdentity(k))

SpecAdmin == InitDefault /\ [][NextAdmin]_vars

\* A long run of the pipeline with readers of the store and consumers that
\* receive, nobody closing anything: the store
\* is mutated only by the pipeline, the stake table (A and B, in either
\* order) and the registry (B, A) are those of the start; the first leaf is
\* a genesis leaf, whose certificate has no signatures, and the leaf of
\* height h > 1 carries two raw bits taken from h, so that neighbouring
\* leaves have different voters.
LongSignatures(h) ==
    IF h = 1 THEN NoSignatures
    ELSE Signatures(<<h % 2 = 1, (h \div 2) % 2 = 1>>)

InitLong ==
    \E ks \in {s \in [1..2 -> LongKeys] : Distinct(s)} :
        InitWith(StakeTable(ks, TRUE),
                 <<<<"B", NodeIdentity("B")>>, <<"A", NodeIdentity("A")>>>>, <<>>)

NextLong ==
    \/ Pipeline
    \/ ProduceLeaf(LongSignatures(produced + 1), MaxLongLeaves)
    \/ RecvBlock
    \/ RecvBlockDone
    \/ RecvVoters
    \/ RecvVotersDone
    \/ Readers

SpecLong == InitLong /\ [][NextLong]_vars

\* The store's four mutators called directly, in any order.  The n-th block
\* appended has height n and the n-th bit vector spells n in binary, so that
\* every appended value is told from every other.
StampBits(n) == [i \in 1..6 |-> (n \div (2 ^ (i - 1))) % 2 = 1]

NextStore ==
    \/ /\ Len(all_blocks) < MaxAppends
       /\ add_latest_block(CreateBlockDetailFromLeaf(Leaf(Len(all_blocks) + 1, NoSignatures)))
    \/ /\ Len(all_voters) < MaxAppends
       /\ add_latest_voters(StampBits(Len(all_voters) + 1))
    \/ \E st \in StakeTablesOver(SpecKeys) : replace_stake_table(st)
    \/ \E k \in LongKeys :
          Len(node_identity) < MaxRegistry /\ add_node_identity(NodeIdentity(k))

SpecStore == InitDefault /\ [][NextStore]_vars

\* The remap on every input: one leaf with any raw bit vector waits in the
\* stream of a store with any stake table and any registry, and the pipeline
\* processes it.
InitRemap ==
    \E st \in StakeTablesOver(Keys) :
        \E registry \in Registries(Keys, MaxIdentities) :
            \E sigs \in SignaturesUpTo(MaxBits) :
                InitWith(st, registry, <<Leaf(1, sigs)>>)

SpecRemap == InitRemap /\ [][Pipeline]_vars

----------------------------------------------------------------------------
(* Properties *)

\* The last n elements of s (all of s when it has fewer).
LastN(s, n) == SubSeq(s, Len(s) - Min(Len(s), n) + 1, Len(s))

\* C1 (SpecStore): after any number N of appends to a history of a store
\* that started empty, the history holds min(N, MAX_HISTORY) entries, and
\* they are the last ones appended, in the order they were appended; this
\* holds for latest_blocks and for latest_voters, whose numbers of appends
\* differ.
C1_BoundedHistory ==
    /\ Len(latest_blocks) = Min(Len(all_blocks), MAX_HISTORY)
    /\ latest_blocks = LastN(all_blocks, MAX_HISTORY)
    /\ Len(latest_voters) = Min(Len(all_voters), MAX_HISTORY)
    /\ latest_voters = LastN(all_voters, MAX_HISTORY)

C1_Witness ==
    /\ Len(all_blocks) > MAX_HISTORY + 1
    /\ Len(all_voters) > MAX_HISTORY
    /\ Len(all_blocks) # Len(all_voters)
    /\ latest_blocks[1].height = Len(all_blocks) - MAX_HISTORY + 1

\* C2 (SpecLong): whenever a reader holds the read lock, the two histories
\* have the same number of entries and have been appended to the same
\* number of times: no reader sees the block of a leaf without its voters.
C2_Lockstep ==
    readers > 0 =>
        /\ Len(latest_blocks) = Len(latest_voters)
        /\ Len(all_blocks) = Len(all_voters)

C2_Witness ==
    /\ readers > 0
    /\ pc = "write"
    /\ Len(all_blocks) > MAX_HISTORY
    /\ Len(latest_blocks) = MAX_HISTORY

\* The bit vector the pipeline stores for the leaf of height h under SpecLong,
\* where the stake table and the registry never change.
LongVotersOf(h) ==
    RemapVoters(StakeTableVotersBitVec(Leaf(h, LongSignatures(h))),
                stake_table, node_identity)

\* C3 (SpecLong): outside the pipeline's write guard, latest_voters[i] is the
\* bit vector computed for the leaf whose block detail is latest_blocks[i],
\* for every index i, also after both histories have evicted entries.
C3_Aligned ==
    ~write_locked =>
        /\ Len(latest_voters) = Len(latest_blocks)
        /\ \A i \in 1..Len(latest_blocks) :
              /\ latest_blocks[i] = CreateBlockDetailFromLeaf(received[latest_blocks[i].height])
              /\ latest_voters[i] = LongVotersOf(latest_blocks[i].height)

C3_Witness ==
    /\ ~write_locked
    /\ Len(all_blocks) > MAX_HISTORY + 1
    /\ latest_blocks[1].height = Len(all_blocks) - MAX_HISTORY + 1
    /\ latest_voters[1] # latest_voters[2]
    /\ \E i \in 1..Len(latest_voters) : latest_voters[i][1] /\ ~latest_voters[i][2]

\* The inputs and the result of the remap of the one leaf of SpecRemap.
RawBits == IF received[1].signatures.some THEN received[1].signatures.bits ELSE <<>>
Enumerated == IF stake_table.ok THEN stake_table.entries ELSE <<>>
Remapped == Len(all_voters) = 1

\* C4 (SpecRemap): the bit vector stored for a leaf is as long as the
\* registry, and its bit i is set exactly when the i-th registered key is the
\* key of a stake table entry whose paired raw bit is set; stake table
\* [A,B,C], raw bits [1,0,1] and registry [C,A,B] give [1,1,0].
C4_RemapCorrect ==
    Remapped =>
        /\ Len(all_voters[1]) = Len(node_identity)
        /\ \A i \in 1..Len(node_identity) :
              all_voters[1][i] <=>
                  \E j \in 1..Len(Enumerated) :
                      /\ j <= Len(RawBits)
                      /\ RawBits[j]
                      /\ Enumerated[j][1] = node_identity[i][1]
        /\ ( /\ stake_table = StakeTable(<<"A", "B", "C">>, TRUE)
             /\ RawBits = <<TRUE, FALSE, TRUE>>
             /\ [i \in 1..Len(node_identity) |-> node_identity[i][1]] = <<"C", "A", "B">> )
           => all_voters[1] = <<TRUE, TRUE, FALSE>>

C4_Witness ==
    /\ Remapped
    /\ latest_voters = <<(<<TRUE, TRUE, FALSE>>)>>
    /\ stake_table = StakeTable(<<"A", "B", "C">>, TRUE)
    /\ RawBits = <<TRUE, FALSE, TRUE>>
    /\ [i \in 1..Len(node_identity) |-> node_identity[i][1]] = <<"C", "A", "B">>

\* The keys of the entries that a set raw bit is paired with, the pairing
\* cut at the end of the shorter sequence.
OverlapVoters ==
    {Enumerated[j][1] : j \in {k \in 1..Min(Len(RawBits), Len(Enumerated)) : RawBits[k]}}

\* C5 (SpecRemap): when the raw bit vector and the stake table's entries
\* differ in length, the voters are those of the overlapping prefix alone: a
\* set bit past the last entry marks nobody, an entry past the last bit has
\* not voted, and the leaf is processed to the end.
C5_PairingTruncated ==
    /\ pc # "done"
    /\ Remapped =>
          \A i \in 1..Len(node_identity) :
              all_voters[1][i] <=> node_identity[i][1] \in OverlapVoters
    /\ (received # <<>> /\ pc = "next") => Remapped

C5_Witness ==
    /\ Remapped
    /\ pc = "next"
    /\ Len(Enumerated) > Len(RawBits)
    /\ Len(RawBits) > 0
    /\ \E i \in 1..Len(node_identity) :
          /\ ~all_voters[1][i]
          /\ \E j \in 1..Len(Enumerated) :
                j > Len(RawBits) /\ Enumerated[j][1] = node_identity[i][1]
    /\ \E i \in 1..Len(node_identity) : all_voters[1][i]

\* C6 (SpecRemap): a leaf without signatures or with an empty raw bit vector,
\* or a stake table that cannot be enumerated, gives a stored bit vector as
\* long as the registry with every bit clear, and the leaf is processed to
\* the end.
C6_Degenerate ==
    /\ pc # "done"
    /\ (received # <<>> /\ pc = "next") => Remapped
    /\ ( /\ Remapped
         /\ \/ ~received[1].signatures.some
            \/ received[1].signatures.bits = <<>>
            \/ ~stake_table.ok )
       => /\ Len(latest_voters[1]) = Len(node_identity)
          /\ \A i \in 1..Len(node_identity) : ~latest_voters[1][i]
          /\ sent_voters # <<>> => sent_voters[1] = latest_voters[1]

C6_Witness ==
    /\ Remapped
    /\ pc = "next"
    /\ ~stake_table.ok
    /\ Len(stake_table.entries) = 3
    /\ received[1].signatures.bits = <<TRUE, TRUE, TRUE>>
    /\ Len(node_identity) = 3
    /\ sent_voters = <<(<<FALSE, FALSE, FALSE>>)>>

InSend == pc \in {"send_block", "flush_block", "send_voters", "flush_voters"}

\* C7 (Spec): while the pipeline is in a send on either channel, attempting
\* it or parked in it, the write lock is not held, so that a reader can take
\* the read lock and a writer the write lock.
C7_NoSendUnderLock ==
    InSend =>
        /\ ~write_locked
        /\ readers < MaxReaders => ENABLED ReaderAcquire
        /\ readers = 0 => ENABLED replace_stake_table(EmptyStakeTable)

C7_Witness ==
    /\ pc = "flush_block"
    /\ block_parked
    /\ readers > 0
    /\ Len(latest_blocks) = 2

\* C8 (Spec): a send that fails on a closed receiver ends the pipeline, which
\* then takes no leaf (the leaves still waiting are dropped with the stream
\* and no further leaf is accepted), changes neither history and attempts no
\* further send;
\* what was appended for the leaf stays in the store.  When the first send of
\* all fails, one leaf was taken, appended once to each history, and the one
\* send attempted is the failed one.
C8_Terminated ==
    failed_sends > 0 =>
        /\ pc = "done"
        /\ exit = "break"
        /\ failed_sends = 1
        /\ ~write_locked
        /\ Len(latest_blocks) = Len(received)
        /\ latest_blocks[Len(latest_blocks)] = CreateBlockDetailFromLeaf(leaf)
        /\ latest_voters[Len(latest_voters)] = voters_bitvec
        /\ sent_blocks = <<>> =>
              /\ Len(received) = 1
              /\ Len(all_blocks) = 1
              /\ Len(all_voters) = 1
              /\ send_attempts = 1
              /\ sent_voters = <<>>

C8_SendFailure ==
    /\ []C8_Terminated
    /\ [][failed_sends > 0 =>
            /\ pc' = "done"
            /\ received' = received
            /\ leaf_stream = <<>>
            /\ leaf_stream' = leaf_stream
            /\ produced' = produced
            /\ latest_blocks' = latest_blocks
            /\ latest_voters' = latest_voters
            /\ send_attempts' = send_attempts
            /\ sent_blocks' = sent_blocks
            /\ sent_voters' = sent_voters]_vars

C8_Witness ==
    /\ failed_sends = 1
    /\ sent_blocks = <<>>
    /\ voters_rx_open = FALSE
    /\ produced > Len(received)
    /\ Len(latest_blocks) = 1

\* C10 (Spec): the leaves are taken in the order they were sent, and the block
\* details sent, the bit vectors sent and the appends to the two histories
\* are each, in order and without gap or repetition, those of the first
\* leaves taken.
C10_OutputOrder ==
    /\ \A i \in 1..Len(received) : received[i].height = i
    /\ Len(all_voters) <= Len(all_blocks)
    /\ Len(all_blocks) <= Len(received)
    /\ Len(sent_blocks) <= Len(all_voters)
    /\ Len(sent_voters) <= Len(sent_blocks)
    /\ \A i \in 1..Len(all_blocks) :
          all_blocks[i] = CreateBlockDetailFromLeaf(received[i])
    /\ \A i \in 1..Len(sent_blocks) :
          sent_blocks[i] = CreateBlockDetailFromLeaf(received[i])
    /\ \A i \in 1..Len(sent_voters) : sent_voters[i] = all_voters[i]
    /\ latest_blocks = all_blocks
    /\ latest_voters = all_voters

C10_Witness ==
    /\ Len(sent_voters) = 2
    /\ sent_voters[1] # sent_voters[2]
    /\ sent_blocks[1].height < sent_blocks[2].height

\* The pipeline waits for a consumer: parked in a send on a channel whose
\* receiver is open.
Suspended ==
    \/ pc = "flush_block" /\ block_parked
    \/ pc = "flush_voters" /\ voters_parked

\* C9 as claimed (FairSpec): once the leaf source is closed, the pipeline
\* eventually terminates.
C9_AlwaysTerminates == leaf_closed ~> (pc = "done")

\* C9 as amended (FairSpec): once the leaf source is closed, the pipeline
\* eventually terminates, or it stays for ever suspended in a send on a full
\* channel whose receiver neither receives nor closes; closed before any
\* leaf was sent, it terminates by returning, with both histories empty and
\* no send attempted.
C9_CleanShutdown ==
    /\ leaf_closed ~> (pc = "done" \/ <>[]Suspended)
    /\ (leaf_closed /\ produced = 0) ~> (pc = "done" /\ exit = "return")
    /\ []((pc = "done" /\ produced = 0) =>
            /\ exit = "return"
            /\ latest_blocks = <<>> /\ latest_voters = <<>>
            /\ all_blocks = <<>> /\ all_voters = <<>>
            /\ send_attempts = 0
            /\ sent_blocks = <<>> /\ sent_voters = <<>>)

C9_Witness ==
    /\ pc = "done"
    /\ exit = "return"
    /\ ~block_rx_open
    /\ voters_rx_open
    /\ Len(latest_blocks) = 1
    /\ Len(sent_voters) = 1

\* The leaves whose block detail (bit vector) is in the store and has not
\* been taken by the consumer of the channel.
UnreceivedBlocks == Len(all_blocks) - (Len(sent_blocks) - Len(block_chan))
UnreceivedVoters == Len(all_voters) - (Len(sent_voters) - Len(voters_chan))

\* A send on a full channel whose consumer has not taken a message since.
SaturatedSend ==
    \/ pc = "flush_block" /\ block_parked
    \/ pc = "flush_voters" /\ voters_parked

\* C11 as claimed (SpecLong): while a consumer is there, the leaves that are
\* in the store and that it has not received are never more than the
\* channel's capacity, the queue depth given to mpsc::channel.
C11_BoundedByCapacity ==
    /\ block_rx_open => UnreceivedBlocks <= ChannelBuffer
    /\ voters_rx_open => UnreceivedVoters <= ChannelBuffer

\* C11 as amended (SpecLong): while the pipeline is suspended in a send on a
\* saturated channel, no step takes a leaf from the stream or changes the
\* store, and the pipeline stays in that send; while a consumer is there,
\* the leaves that are in the store and that it has not received are never
\* more than the channel's capacity plus one, the one message that the
\* fresh clone of the sender queues before it parks.
C11_Backpressure ==
    /\ [](block_rx_open => UnreceivedBlocks <= ChannelBuffer + 1)
    /\ [](voters_rx_open => UnreceivedVoters <= ChannelBuffer + 1)
    /\ [](Len(block_chan) <= ChannelBuffer + 1)
    /\ [](Len(voters_chan) <= ChannelBuffer + 1)
    /\ [][SaturatedSend =>
            /\ pc' = pc
            /\ received' = received
            /\ Len(leaf_stream') >= Len(leaf_stream)
            /\ store_vars' = store_vars
            /\ all_blocks' = all_blocks
            /\ all_voters' = all_voters]_vars

C11_Witness ==
    /\ pc = "flush_block"
    /\ block_parked
    /\ block_rx_open
    /\ Len(block_chan) = ChannelBuffer + 1
    /\ UnreceivedBlocks = ChannelBuffer + 1
    /\ leaf_stream # <<>>
    /\ Len(all_blocks) > ChannelBuffer + 2

\* C12 (Spec): the value with which process_leaf_stream finishes tells a
\* termination caused by a failed send from the clean end of the stream: the
\* value of one is not the value of the other.
C12_OutcomeReported ==
    pc = "done" =>
        /\ exit = "break" =>
              ProcessLeafStreamOutput(exit) # ProcessLeafStreamOutput("return")
        /\ exit = "return" =>
              ProcessLeafStreamOutput(exit) # ProcessLeafStreamOutput("break")

\* k leaves have been sent, both consumers are there, and each has received
\* k messages.
Delivered(k) ==
    /\ produced = k
    /\ block_rx_open
    /\ voters_rx_open
    /\ Len(sent_blocks) - Len(block_chan) = k
    /\ Len(sent_voters) - Len(voters_chan) = k

\* C13 (SpecLong): from a store with empty histories and with both consumers
\* receiving, once k leaves have been sent and their outputs received,
\* exactly k block details and exactly k bit vectors have been sent, no send
\* has failed, and each history holds min(k, MAX_HISTORY) entries; for k = 1,
\* a genesis leaf (no signatures), the bit vector sent is all false, has the
\* registry's length, and each history holds one entry.
C13_EndToEnd ==
    \A k \in 1..(MaxLongLeaves + 1) :
        Delivered(k) =>
            /\ Len(sent_blocks) = k
            /\ Len(sent_voters) = k
            /\ block_chan = <<>>
            /\ voters_chan = <<>>
            /\ send_attempts = 2 * k
            /\ failed_sends = 0
            /\ Len(latest_blocks) = Min(k, MAX_HISTORY)
            /\ Len(latest_voters) = Min(k, MAX_HISTORY)
            /\ (k = 1 /\ ~received[1].signatures.some) =>
                  /\ sent_voters[1] = [i \in 1..Len(node_identity) |-> FALSE]
                  /\ Len(latest_blocks) = 1
                  /\ Len(latest_voters) = 1
                  /\ latest_voters[1] = sent_voters[1]

C13_Witness ==
    /\ Delivered(MAX_HISTORY + 1)
    /\ Len(sent_voters) = MAX_HISTORY + 1
    /\ Len(latest_blocks) = MAX_HISTORY
    /\ ~received[1].signatures.some
    /\ node_identity # <<>>
    /\ sent_voters[1] = [i \in 1..Len(node_identity) |-> FALSE]

\* The registry's public keys, in registry order.
RegistryKeys == [i \in 1..Len(node_identity) |-> node_identity[i][1]]

\* C14 as claimed (SpecStore): after any sequence of add_node_identity calls
\* the public keys of the registry are pairwise distinct.
C14_KeysUnique == Distinct(RegistryKeys)

\* C14 as amended (SpecStore): a call of add_node_identity leaves the
\* registry's keys pairwise distinct exactly when they were distinct before
\* and the identity's key was not among them; a call for a key already
\* present leaves that key in the registry twice.
C14_KeysUniqueIfCallerDedupes ==
    [][node_identity' # node_identity =>
          LET added == node_identity'[Len(node_identity')][1]
              before == {RegistryKeys[i] : i \in 1..Len(RegistryKeys)}
          IN  Distinct(RegistryKeys') <=>
                  (Distinct(RegistryKeys) /\ added \notin before)]_vars

C14_Witness ==
    /\ Len(node_identity) = 2
    /\ RegistryKeys[1] # RegistryKeys[2]
    /\ latest_voters # <<>>

\* C17 (SpecStore): every step that changes the registry appends one pair
\* (key, identity) at its end, the entries already there staying as they
\* are and where they are; and a call of add_node_identity does so for every
\* key, one already present included.
C17_AppendOnly ==
    /\ [][node_identity' # node_identity =>
            /\ Len(node_identity') = Len(node_identity) + 1
            /\ SubSeq(node_identity', 1, Len(node_identity)) = node_identity
            /\ \E k \in LongKeys :
                  node_identity'[Len(node_identity')] = <<k, NodeIdentity(k)>>]_vars
    /\ [](\A k \in LongKeys :
            ENABLED (/\ add_node_identity(NodeIdentity(k))
                     /\ node_identity' = Append(node_identity, <<k, NodeIdentity(k)>>)))

C17_Witness ==
    /\ Len(node_identity) = 2
    /\ RegistryKeys[1] = RegistryKeys[2]
    /\ node_identity[1] = node_identity[2]

\* C15 (SpecAdmin): whatever calls of replace_stake_table and
\* add_node_identity come between the pipeline's steps, the bit vector that a
\* step appends to latest_voters is the remap of the leaf's raw bit vector
\* against the stake table and the registry of the state the step starts
\* from, and neither changes while the pipeline holds the write guard.
C15_CriticalSection ==
    /\ [][all_voters' # all_voters =>
            LET appended == all_voters'[Len(all_voters')]
                raw == StakeTableVotersBitVec(leaf)
            IN  /\ latest_voters' = Append(latest_voters, appended)
                /\ Len(appended) = Len(node_identity)
                /\ \A i \in 1..Len(node_identity) :
                      appended[i] <=>
                          \E j \in 1..Len(Enumerated) :
                              /\ j <= Len(raw)
                              /\ raw[j]
                              /\ Enumerated[j][1] = node_identity[i][1]
                /\ stake_table' = stake_table
                /\ node_identity' = node_identity]_vars
    /\ [][write_locked =>
            stake_table' = stake_table /\ node_identity' = node_identity]_vars

C15_Witness ==
    /\ Len(all_voters) = 2
    /\ all_voters[1] = <<>>
    /\ all_voters[2] = <<TRUE, TRUE>>
    /\ StakeTableVotersBitVec(received[1]) = <<TRUE>>
    /\ pc = "drop"

\* C16 (SpecAdmin): a step that changes the stake table changes nothing else
\* of the store: latest_blocks, latest_voters (the bit vectors remapped
\* against the old table) and the registry stay as they are; and a call of
\* replace_stake_table leaves exactly the given table in the store.
C16_ReplaceFrame ==
    /\ [][stake_table' # stake_table =>
            /\ latest_blocks' = latest_blocks
            /\ latest_voters' = latest_voters
            /\ node_identity' = node_identity]_vars
    /\ [](\A st \in StakeTablesOver(SpecKeys) :
            LockFree =>
                ENABLED (/\ replace_stake_table(st)
                         /\ stake_table' = st
                         /\ latest_blocks' = latest_blocks
                         /\ latest_voters' = latest_voters
                         /\ node_identity' = node_identity))

C16_Witness ==
    /\ Len(received) = 1
    /\ stake_table = StakeTable(<<"A">>, TRUE)
    /\ RegistryKeys = <<"A">>
    /\ StakeTableVotersBitVec(received[1]) = <<TRUE>>
    /\ latest_voters = <<(<<FALSE>>)>>
    /\ pc = "next"

\* C19 (SpecAdmin): in a store that started empty, every bit vector of
\* latest_voters is at most as long as the registry, and no bit vector is
\* longer than one stored after it.
C19_BitmapLengths ==
    /\ \A i \in 1..Len(latest_voters) :
          Len(latest_voters[i]) <= Len(node_identity)
    /\ \A i, j \in 1..Len(latest_voters) :
          i < j => Len(latest_voters[i]) <= Len(latest_voters[j])

C19_Witness ==
    /\ Len(latest_voters) = 2
    /\ Len(latest_voters[1]) = 1
    /\ Len(latest_voters[2]) = 2
    /\ Len(node_identity) = 2

\* C20 (SpecAdmin): no step of the pipeline changes the stake table or the
\* registry; a step of the pipeline changes a history only by appending the
\* leaf's block detail to latest_blocks or its bit vector to latest_voters,
\* and once the guard is dropped each history has been appended to once for
\* every leaf taken.
C20_PipelineFrame ==
    /\ [][Pipeline =>
            /\ stake_table' = stake_table
            /\ node_identity' = node_identity
            /\ \/ /\ latest_blocks' = latest_blocks
                  /\ latest_voters' = latest_voters
               \/ /\ latest_blocks' = PushBack(latest_blocks, CreateBlockDetailFromLeaf(leaf))
                  /\ latest_voters' = latest_voters
               \/ /\ latest_blocks' = latest_blocks
                  /\ latest_voters' = PushBack(latest_voters, voters_bitvec)]_vars
    /\ [](~write_locked =>
            /\ Len(all_blocks) = Len(all_voters)
            /\ Len(all_blocks) = Len(received) - (IF pc = "write" THEN 1 ELSE 0)
            /\ latest_blocks = all_blocks
            /\ latest_voters = all_voters)

C20_Witness ==
    /\ pc = "send_block"
    /\ Len(received) = 2
    /\ Len(latest_blocks) = 2
    /\ Len(latest_voters) = 2
    /\ stake_table = StakeTable(<<"A">>, TRUE)
    /\ Len(node_identity) = 1

\* The send that failed was the send of a bit vector: every leaf before made
\* two sends, and the last leaf's block detail was sent.
VoterSendFailed == failed_sends = 1 /\ send_attempts % 2 = 0

\* C18 (Spec): at every point the pipeline has appended to the store for at
\* least as many leaves as it has sent block details, and has sent at least
\* as many block details as bit vectors, each count at most one ahead of the
\* next; the i-th block detail sent and the i-th bit vector sent are the
\* i-th values appended to the histories; and after a failed send of a bit
\* vector exactly one more block detail than bit vectors has been sent.
C18_CommitBeforeEmit ==
    /\ Len(all_blocks) >= Len(all_voters)
    /\ Len(all_voters) >= Len(sent_blocks)
    /\ Len(sent_blocks) >= Len(sent_voters)
    /\ Len(all_blocks) - Len(sent_blocks) <= 1
    /\ Len(sent_blocks) - Len(sent_voters) <= 1
    /\ \A i \in 1..Len(sent_blocks) : sent_blocks[i] = all_blocks[i]
    /\ \A i \in 1..Len(sent_voters) : sent_voters[i] = all_voters[i]
    /\ VoterSendFailed =>
          /\ pc = "done"
          /\ Len(sent_blocks) = Len(sent_voters) + 1
          /\ Len(all_voters) = Len(sent_blocks)
    /\ (failed_sends = 1 /\ ~VoterSendFailed) =>
          /\ Len(sent_blocks) = Len(sent_voters)
          /\ Len(all_voters) = Len(sent_blocks) + 1

C18_Witness ==
    /\ VoterSendFailed
    /\ Len(sent_blocks) = 2
    /\ Len(sent_voters) = 1
    /\ Len(latest_voters) = 2
    /\ block_rx_open

====
